---- MODULE Spec2Model ----
(***************************************************************************)
(* Model of ner_project.py: a sequential script that loads an entity       *)
(* extraction model, runs it over a list of texts, flattens the entities   *)
(* into records, summarises them and writes two files.                     *)
(*                                                                         *)
(* The extraction model (spaCy) and the table library (pandas) are         *)
(* external.  The extractor is a nondeterministic choice among bounded     *)
(* entity sequences; the table operations used by the script (nunique,     *)
(* value_counts, head, len) are operators over sequences of records.       *)
(***************************************************************************)
EXTENDS Integers, Sequences, FiniteSets, TLC

\* ------------------------------------------------------------------ bounds

\* Longest list of input texts in the whole-program specification.
MaxTexts == 2
\* Most entities of one extractor answer in the whole-program specification.
MaxEnts == 2
\* Number of different first entities an extractor answer can start with.
MaxStart == 2
\* Longest list of texts behind a record list given to the report functions.
ReportTexts == 2
\* Most entities of one extractor answer behind such a record list.
ReportEnts == 11

\* ------------------------------------------------------- program constants

\* df['entity_text'].value_counts().head(10)
TopN == 10
\* common_entities.head(5)
DisplayN == 5

\* ---------------------------------------------------------------- values

\* Python's None and a present value, as a sequence of length 0 or 1.
None == <<>>
Some(x) == <<x>>
Get(o) == o[1]

Min(a, b) == IF a <= b THEN a ELSE b

\* The texts a list of input texts is made of.  get_sample_texts returns a
\* literal list of sentences; only the extractor reads a sentence, so a text
\* is a name the extractor answers for, and the list varies in length and
\* may repeat a text.
Texts == {"t1", "t2"}

\* The labels the extractor attaches; "XYZ" is one spacy.explain does not know.
Labels == <<"PERSON", "GPE", "XYZ">>

\* spacy.explain(label): a description, or None for an unrecognised label.
Explain(label) ==
    CASE label = "PERSON" -> Some("People, including fictional")
      [] label = "GPE" -> Some("Countries, cities, states")
      [] OTHER -> None

\* One span of doc.ents: span k has the surface text k and a label that
\* depends on k.
Span(k) == [text |-> k, label |-> Labels[(k % 3) + 1]]

\* The spans a, a+1, ..., a+n-1 in order.
Window(a, n) == [j \in 1..n |-> Span(a + j - 1)]

\* nlp(text).ents: the answers the extractor can give for one text, each at
\* most maxlen spans long (one more when the first span is found a second
\* time at the end).
ExtractorOutputs(maxlen) ==
    {Window(a, n) : a \in 1..MaxStart, n \in 0..maxlen}
        \cup {Window(a, n) \o <<Span(a)>> : a \in 1..MaxStart, n \in 1..maxlen}

\* extract_entities(nlp, text), given doc.ents: one dictionary per span, in
\* order, with the description of its label.
ExtractEntities(ents) ==
    [j \in DOMAIN ents |->
        [text |-> ents[j].text,
         label |-> ents[j].label,
         description |-> Explain(ents[j].label)]]

\* The lists of at most n texts.
TextLists(n) == UNION {[1..m -> Texts] : m \in 0..n}

\* ------------------------------------------------------------ analyze_texts

\* Faulty variants of TextRecords: only the first entity of a text is
\* recorded; the 0-based position is stored as text_id.
TextRecordsFirstOnly(i, text, entities) ==
    [j \in 1..Min(1, Len(entities)) |->
        [text_id |-> i + 1,
         original_text |-> text,
         entity_text |-> entities[j].text,
         entity_type |-> entities[j].label,
         description |-> entities[j].description]]
TextRecordsZeroBased(i, text, entities) ==
    [j \in 1..Len(entities) |->
        [text_id |-> i,
         original_text |-> text,
         entity_text |-> entities[j].text,
         entity_type |-> entities[j].label,
         description |-> entities[j].description]]

\* The records one iteration of the loop of analyze_texts appends for the
\* text at 0-based position i: one per entity, in the extractor's order;
\* nothing for an empty answer.
TextRecords(i, text, entities) ==
    [j \in 1..Len(entities) |->
        [text_id |-> i + 1,
         original_text |-> text,
         entity_text |-> entities[j].text,
         entity_type |-> entities[j].label,
         description |-> entities[j].description]]

\* analyze_texts as a whole: the records of the first n texts.
RECURSIVE AnalyzeAll(_, _, _)
AnalyzeAll(texts, answers, n) ==
    IF n = 0 THEN <<>>
    ELSE AnalyzeAll(texts, answers, n - 1)
            \o TextRecords(n - 1, texts[n], answers[n])

\* --------------------------------------------- the table operations used

\* df[f]: one column of a table whose rows are records.
Column(rows, f) == [k \in DOMAIN rows |-> rows[k][f]]

\* Faulty variant of Nunique: the number of values, equal ones counted again.
NuniqueAsCount(col) == Len(col)

\* Series.nunique(): the number of different values of a column.
Nunique(col) == Cardinality({col[k] : k \in DOMAIN col})

\* The orders in which value_counts can list values of equal count: by first
\* appearance, or by last-first appearance.  The library promises the
\* descending counts only.
TieOrders == {"first_seen", "last_seen"}

\* The only element of a one-element set.  {F(x) : x \in {e}} computes e
\* once, however often F uses x.
Only(S) == CHOOSE x \in S : TRUE

\* The positions at which a value of the column appears for the first time.
FirstSeen(col) == {k \in DOMAIN col : \A j \in 1..(k - 1) : col[j] # col[k]}

\* For each such position, the number of occurrences of its value.
Counts(col, first) ==
    [k \in first |-> Cardinality({j \in DOMAIN col : col[j] = col[k]})]

\* Faulty variant of Ranks: ascending counts.
RanksAscending(first, cnt, tie) ==
    [k \in first |->
        1 + Cardinality({j \in first :
              \/ cnt[j] < cnt[k]
              \/ cnt[j] = cnt[k]
                   /\ (IF tie = "first_seen" THEN j < k ELSE j > k)})]

\* The place of each value in the result: after every value of greater
\* count and after the values of equal count that `tie` puts before it.
Ranks(first, cnt, tie) ==
    [k \in first |->
        1 + Cardinality({j \in first :
              \/ cnt[j] > cnt[k]
              \/ cnt[j] = cnt[k]
                   /\ (IF tie = "first_seen" THEN j < k ELSE j > k)})]

\* Series.value_counts(): one entry per different value with the number of
\* its occurrences, in descending order of that number; entries of equal
\* count in the order `tie` names.
ValueCounts(column, tie) ==
    Only({Only({Only({Only({
        [p \in 1..Cardinality(first) |->
            LET k == CHOOSE k \in first : rank[k] = p
            IN  [value |-> col[k], count |-> cnt[k]]]
        : rank \in {Ranks(first, cnt, tie)}})
        : cnt \in {Counts(col, first)}})
        : first \in {FirstSeen(col)}})
        : col \in {column}})

\* Faulty variant of HeadN: the last n entries.
TailN(s, n) == SubSeq(s, Len(s) - Min(n, Len(s)) + 1, Len(s))

\* Series.head(n): the first n entries, or all when there are fewer.
HeadN(s, n) == SubSeq(s, 1, Min(n, Len(s)))

\* count / total * 100 as the exact fraction num / den.
Percentage(count, total) == [num |-> count * 100, den |-> total]

\* The per-type lines of the breakdown: type, count, percentage and, in the
\* printed summary, the description of the type.
Breakdown(entity_counts, total) ==
    [p \in DOMAIN entity_counts |->
        [entity_type |-> entity_counts[p].value,
         count |-> entity_counts[p].count,
         percentage |-> Percentage(entity_counts[p].count, total),
         description |-> Explain(entity_counts[p].value)]]

\* -------------------------------------------------- create_analysis_report

\* The body of create_analysis_report after its test of the record list:
\* the table, the statistics, the counts per type and per entity text, and
\* the printed summary.  The average is total_entities / total_texts; a
\* divisor of zero raises.
ReportStatistics(results, tie) ==
    LET total_texts == Nunique(Column(results, "text_id"))
        total_entities == Len(results)
        unique_entities == Nunique(Column(results, "entity_text"))
        unique_types == Nunique(Column(results, "entity_type"))
    IN  IF total_texts = 0
        THEN [df |-> None, entity_counts |-> None, stats |-> None,
              divisor |-> Some(0), common_entities |-> None,
              displayed |-> None, breakdown |-> None, raised |-> TRUE,
              console |-> <<>>]
        ELSE Only({
              [df |-> Some(results),
               entity_counts |-> Some(entity_counts),
               stats |-> Some([total_texts |-> total_texts,
                               total_entities |-> total_entities,
                               unique_entities |-> unique_entities,
                               unique_types |-> unique_types,
                               avg_entities_per_text |->
                                   [num |-> total_entities,
                                    den |-> total_texts]]),
               divisor |-> Some(total_texts),
               common_entities |-> Some(common_entities),
               displayed |-> Some(HeadN(common_entities, DisplayN)),
               breakdown |-> Some(Breakdown(entity_counts, total_entities)),
               raised |-> FALSE,
               console |-> <<"summary">>]
              : entity_counts \in
                    {ValueCounts(Column(results, "entity_type"), tie)},
                common_entities \in
                    {HeadN(ValueCounts(Column(results, "entity_text"), tie),
                           TopN)}})

\* Faulty variant of create_analysis_report: the record list is not tested.
CreateAnalysisReportNoGuard(results, tie) == ReportStatistics(results, tie)

\* create_analysis_report(results): the returned pair (df, entity_counts),
\* what was computed and printed on the way, the divisor of the average when
\* the division is performed, and whether the call raised.
CreateAnalysisReport(results, tie) ==
    IF results = <<>>
    THEN [df |-> None, entity_counts |-> None, stats |-> None,
          divisor |-> None, common_entities |-> None, displayed |-> None,
          breakdown |-> None, raised |-> FALSE, console |-> <<"no_results">>]
    ELSE ReportStatistics(results, tie)

\* ------------------------------------------------------------ save_results

\* What a call of save_results can meet: both writes succeed, the write of
\* the table fails, or the write of the text report fails.
SaveOutcomes == {"ok", "csv_error", "report_error"}

\* The text report save_results builds from the table.
SummaryReport(rows, tie) ==
    [total_texts |-> Nunique(Column(rows, "text_id")),
     total_entities |-> Len(rows),
     unique_entities |-> Nunique(Column(rows, "entity_text")),
     unique_types |-> Nunique(Column(rows, "entity_type")),
     breakdown |->
        LET b == Breakdown(ValueCounts(Column(rows, "entity_type"), tie), Len(rows))
        IN  [p \in DOMAIN b |->
                [entity_type |-> b[p].entity_type,
                 count |-> b[p].count,
                 percentage |-> b[p].percentage]]]

\* Faulty variant of SaveResults: the error of a write is not caught.
SaveResultsUncaught(rows, tie, outcome) ==
    CASE outcome = "csv_error" ->
            [csv |-> None, report |-> None, raised |-> TRUE, console |-> <<>>]
      [] outcome = "report_error" ->
            [csv |-> Some(rows), report |-> None, raised |-> TRUE,
             console |-> <<"saved_csv">>]
      [] OTHER ->
            [csv |-> Some(rows), report |-> Some(SummaryReport(rows, tie)),
             raised |-> FALSE,
             console |-> <<"saved_csv", "saved_report">>]

\* save_results(df): the files written and the messages printed; an error
\* of either write is caught and ends in the warning.
SaveResults(rows, tie, outcome) ==
    CASE outcome = "csv_error" ->
            [csv |-> None, report |-> None, raised |-> FALSE,
             console |-> <<"warning_could_not_save">>]
      [] outcome = "report_error" ->
            [csv |-> Some(rows), report |-> None, raised |-> FALSE,
             console |-> <<"saved_csv", "warning_could_not_save">>]
      [] OTHER ->
            [csv |-> Some(rows), report |-> Some(SummaryReport(rows, tie)),
             raised |-> FALSE,
             console |-> <<"saved_csv", "saved_report">>]

\* ------------------------------------------------------- load_spacy_model

\* Faulty variant of LoadSpacyModel: the error of the second load is
\* swallowed.
LoadSpacyModelSwallow(on_disk, download_ok) ==
    IF on_disk
    THEN [loaded |-> TRUE, loads |-> 1, downloads |-> 0, raised |-> FALSE,
          on_disk |-> TRUE, console |-> <<>>]
    ELSE [loaded |-> download_ok, loads |-> 2, downloads |-> 1,
          raised |-> FALSE, on_disk |-> download_ok,
          console |-> <<"model_not_found">>]

\* load_spacy_model(): a first load; when the model is not found, one
\* download and one second load, whose error is not caught.
LoadSpacyModel(on_disk, download_ok) ==
    IF on_disk
    THEN [loaded |-> TRUE, loads |-> 1, downloads |-> 0, raised |-> FALSE,
          on_disk |-> TRUE, console |-> <<>>]
    ELSE IF download_ok
    THEN [loaded |-> TRUE, loads |-> 2, downloads |-> 1, raised |-> FALSE,
          on_disk |-> TRUE, console |-> <<"model_not_found">>]
    ELSE [loaded |-> FALSE, loads |-> 2, downloads |-> 1, raised |-> TRUE,
          on_disk |-> FALSE, console |-> <<"model_not_found">>]

\* ------------------------------------------------------------------ state

VARIABLES
    pc,                 \* where main is
    packages_installed, \* spacy, pandas and matplotlib can be imported
    model_on_disk,      \* en_core_web_sm can be loaded
    en_core_web_sm,     \* what the model answers for each text
    tie,                \* the order value_counts gives to equal counts
    nlp,                \* main's nlp: None or the loaded model
    downloads,          \* runs of "spacy download en_core_web_sm"
    loads,              \* calls of spacy.load
    sample_texts,       \* main's sample_texts
    i,                  \* 0-based position of the loop of analyze_texts
    all_results,        \* the record list of analyze_texts, main's results
    df,                 \* main's df
    entity_counts,      \* main's entity_counts
    summary,            \* what create_analysis_report computed and printed
    files,              \* what this run wrote of the two output files
    console,            \* the messages printed, in order
    calls               \* the functions called, in order

vars == <<pc, packages_installed, model_on_disk, en_core_web_sm, tie, nlp,
          downloads, loads, sample_texts, i, all_results, df, entity_counts,
          summary, files, console, calls>>

env == <<packages_installed, model_on_disk, en_core_web_sm, tie>>
report_vars == <<df, entity_counts, summary>>

Called(f) == \E k \in DOMAIN calls : calls[k] = f
Printed(m) == \E k \in DOMAIN console : console[k] = m

NoSummary ==
    [stats |-> None, divisor |-> None, breakdown |-> None,
     common_entities |-> None, displayed |-> None]

NoFiles == [csv |-> None, report |-> None]

\* The state when the interpreter starts the script.
Init ==
    /\ pc = "import"
    /\ packages_installed \in BOOLEAN
    /\ model_on_disk \in BOOLEAN
    /\ en_core_web_sm \in [Texts -> ExtractorOutputs(MaxEnts)]
    /\ tie \in TieOrders
    /\ nlp = None
    /\ downloads = 0
    /\ loads = 0
    /\ sample_texts = <<>>
    /\ i = 0
    /\ all_results = <<>>
    /\ df = None
    /\ entity_counts = None
    /\ summary = NoSummary
    /\ files = NoFiles
    /\ console = <<>>
    /\ calls = <<>>

\* The imports at the top of the script: an ImportError ends the run.
ImportModules ==
    /\ pc = "import"
    /\ IF packages_installed
       THEN pc' = "install" /\ console' = console
       ELSE pc' = "failed" /\ console' = Append(console, "ImportError")
    /\ UNCHANGED <<env, nlp, downloads, loads, sample_texts, i, all_results,
                   report_vars, files, calls>>

\* install_requirements(): installs only when an import fails.
InstallRequirements ==
    /\ pc = "install"
    /\ calls' = Append(calls, "install_requirements")
    /\ IF packages_installed
       THEN UNCHANGED <<packages_installed, model_on_disk, downloads, console>>
       ELSE \E ok \in BOOLEAN :
               /\ packages_installed' = ok
               /\ model_on_disk' = (model_on_disk \/ ok)
               /\ downloads' = downloads + 1
               /\ console' = console \o <<"installing", "installation_complete">>
    /\ pc' = "load"
    /\ UNCHANGED <<en_core_web_sm, tie, nlp, loads, sample_texts, i,
                   all_results, report_vars, files>>

\* nlp = load_spacy_model()
MainLoadSpacyModel ==
    /\ pc = "load"
    /\ \E download_ok \in BOOLEAN :
          \E r \in {LoadSpacyModel(model_on_disk, download_ok)} :
              /\ nlp' = IF r.loaded THEN Some(en_core_web_sm) ELSE None
              /\ loads' = loads + r.loads
              /\ downloads' = downloads + r.downloads
              /\ model_on_disk' = r.on_disk
              /\ console' = console \o r.console
              /\ pc' = IF r.raised THEN "failed" ELSE "get_texts"
    /\ calls' = Append(calls, "load_spacy_model")
    /\ UNCHANGED <<packages_installed, en_core_web_sm, tie, sample_texts, i,
                   all_results, report_vars, files>>

\* sample_texts = get_sample_texts(), and the entry of analyze_texts.
GetSampleTexts ==
    /\ pc = "get_texts"
    /\ \E texts \in TextLists(MaxTexts) : sample_texts' = texts
    /\ calls' = calls \o <<"get_sample_texts", "analyze_texts">>
    /\ all_results' = <<>>
    /\ i' = 0
    /\ pc' = "analyze"
    /\ UNCHANGED <<env, nlp, downloads, loads, report_vars, files, console>>

\* One iteration of the loop of analyze_texts.
AnalyzeText ==
    /\ pc = "analyze"
    /\ i < Len(sample_texts)
    /\ IF nlp = None
       THEN /\ pc' = "failed"
            /\ console' = Append(console, "TypeError")
            /\ UNCHANGED <<i, all_results>>
       ELSE LET text == sample_texts[i + 1]
                entities == ExtractEntities(Get(nlp)[text])
            IN  /\ all_results' = all_results \o TextRecords(i, text, entities)
                /\ i' = i + 1
                /\ UNCHANGED <<pc, console>>
    /\ UNCHANGED <<env, nlp, downloads, loads, sample_texts, report_vars,
                   files, calls>>

\* Faulty variant of AnalyzeReturn: main does not test the record list.
AnalyzeReturnNoTest ==
    /\ pc = "analyze"
    /\ i = Len(sample_texts)
    /\ pc' = "report"
    /\ console' = Append(console, "total_extracted")
    /\ UNCHANGED <<env, nlp, downloads, loads, sample_texts, i, all_results,
                   report_vars, files, calls>>

\* The return of analyze_texts and main's test of the record list.
AnalyzeReturn ==
    /\ pc = "analyze"
    /\ i = Len(sample_texts)
    /\ IF all_results # <<>>
       THEN pc' = "report" /\ console' = Append(console, "total_extracted")
       ELSE /\ pc' = "done"
            /\ console' = console \o <<"total_extracted", "no_entities_found">>
    /\ UNCHANGED <<env, nlp, downloads, loads, sample_texts, i, all_results,
                   report_vars, files, calls>>

\* df, entity_counts = create_analysis_report(results), and main's test of df.
MainCreateReport ==
    /\ pc = "report"
    /\ \E r \in {CreateAnalysisReport(all_results, tie)} :
           /\ df' = r.df
           /\ entity_counts' = r.entity_counts
           /\ summary' = [stats |-> r.stats, divisor |-> r.divisor,
                          breakdown |-> r.breakdown,
                          common_entities |-> r.common_entities,
                          displayed |-> r.displayed]
           /\ console' = console \o r.console
           /\ pc' = IF r.raised THEN "failed"
                    ELSE IF r.df # None THEN "save" ELSE "custom"
    /\ calls' = Append(calls, "create_analysis_report")
    /\ UNCHANGED <<env, nlp, downloads, loads, sample_texts, i, all_results,
                   files>>

\* save_results(df)
MainSaveResults ==
    /\ pc = "save"
    /\ \E outcome \in SaveOutcomes :
          \E r \in {SaveResults(Get(df), tie, outcome)} :
              /\ files' = [csv |-> r.csv, report |-> r.report]
              /\ console' = console \o r.console
              /\ pc' = IF r.raised THEN "failed" ELSE "custom"
    /\ calls' = Append(calls, "save_results")
    /\ UNCHANGED <<env, nlp, downloads, loads, sample_texts, i, all_results,
                   report_vars>>

\* test_custom_text(nlp) and the closing messages of main.
TestCustomText ==
    /\ pc = "custom"
    /\ calls' = Append(calls, "test_custom_text")
    /\ IF nlp = None
       THEN pc' = "failed" /\ console' = Append(console, "TypeError")
       ELSE \E ents \in ExtractorOutputs(MaxEnts) :
               /\ console' = console \o
                     <<IF ents # <<>> THEN "custom_entities"
                                      ELSE "custom_no_entities",
                       "completed">>
               /\ pc' = "done"
    /\ UNCHANGED <<env, nlp, downloads, loads, sample_texts, i, all_results,
                   report_vars, files>>

Next ==
    \/ ImportModules
    \/ InstallRequirements
    \/ MainLoadSpacyModel
    \/ GetSampleTexts
    \/ AnalyzeText
    \/ AnalyzeReturn
    \/ MainCreateReport
    \/ MainSaveResults
    \/ TestCustomText

Spec == Init /\ [][Next]_vars

\* ------------------------------------- the report functions on their own

\* The k-th text of a list that alternates between the two texts.
TextAt(k) == IF k % 2 = 1 THEN "t1" ELSE "t2"

\* The extractor answers behind a record list built from n texts: the first
\* text holds at most ReportEnts spans, each later one at most MaxEnts.
ReportAnswers(n) ==
    IF n = 0 THEN {<<>>}
    ELSE {<<first>> \o rest :
            first \in ExtractorOutputs(ReportEnts),
            rest \in [1..(n - 1) -> ExtractorOutputs(MaxEnts)]}

\* A record list given to create_analysis_report: the empty list, or what
\* analyze_texts returns for at most ReportTexts texts.
IsReportInput(results) ==
    \E n \in 0..ReportTexts : \E a \in ReportAnswers(n) :
        \E entities \in {[k \in 1..n |-> ExtractEntities(a[k])]} :
            results = AnalyzeAll([k \in 1..n |-> TextAt(k)], entities, n)

\* main from the call of create_analysis_report on, for any record list.
InitReport ==
    /\ pc = "report"
    /\ packages_installed = TRUE
    /\ model_on_disk = TRUE
    /\ en_core_web_sm = [t \in Texts |-> <<>>]
    /\ tie \in TieOrders
    /\ nlp = Some(en_core_web_sm)
    /\ downloads = 0
    /\ loads = 1
    /\ sample_texts = <<>>
    /\ i = 0
    /\ IsReportInput(all_results)
    /\ df = None
    /\ entity_counts = None
    /\ summary = NoSummary
    /\ files = NoFiles
    /\ console = <<>>
    /\ calls = <<>>

NextReport ==
    \/ MainCreateReport
    \/ MainSaveResults

SpecReport == InitReport /\ [][NextReport]_vars

\* ----------------------------------------------------------------- claims

AfterAnalysis == pc \in {"report", "save", "custom", "done"}

ReportFunctions ==
    {"analyze_texts", "create_analysis_report", "save_results",
     "test_custom_text"}

\* The number of entities the extractor returns for the first n input texts.
RECURSIVE EntitiesReturned(_)
EntitiesReturned(n) ==
    IF n = 0 THEN 0
    ELSE EntitiesReturned(n - 1) + Len(en_core_web_sm[sample_texts[n]])

\* The number of rows of a table whose field f has the value v.
Occurrences(rows, f, v) == Cardinality({k \in DOMAIN rows : rows[k][f] = v})

RECURSIVE SumOf(_, _, _)
SumOf(s, F(_), n) == IF n = 0 THEN 0 ELSE SumOf(s, F, n - 1) + F(s[n])

CountOf(e) == e.count
NumOf(e) == e.percentage.num

Descending(s) == \A p \in 1..(Len(s) - 1) : s[p].count >= s[p + 1].count

\* C1: the record list of analyze_texts is as long as the sum, over the
\* texts analysed so far, of the number of entities the extractor returned
\* for each; on return every input text has been analysed (a text with no
\* entity adds nothing and does not end the pass), so the returned list is
\* as long as the sum over all input texts.
C1_RecordCount ==
    Called("analyze_texts") =>
        /\ Len(all_results) = EntitiesReturned(i)
        /\ pc # "failed"
        /\ AfterAnalysis =>
              /\ i = Len(sample_texts)
              /\ Len(all_results) = EntitiesReturned(Len(sample_texts))

\* C1 witness: a finished pass over two texts, the first without entities,
\* the second with at least two.
C1_Witness ==
    /\ pc = "done"
    /\ Len(sample_texts) = 2
    /\ en_core_web_sm[sample_texts[1]] = <<>>
    /\ Len(en_core_web_sm[sample_texts[2]]) >= 2
    /\ Len(all_results) >= 2

\* C2: at every point during and after analyze_texts, the text_id values of
\* the record list never decrease, each is the 1-based position of an input
\* text already analysed, original_text is that input text, and the records
\* of one text are the extractor's entities for it, in the extractor's order.
C2_RecordOrder ==
    Called("analyze_texts") =>
        /\ i <= Len(sample_texts)
        /\ \A k \in DOMAIN all_results :
              /\ 1 <= all_results[k].text_id
              /\ all_results[k].text_id <= i
              /\ all_results[k].original_text
                    = sample_texts[all_results[k].text_id]
        /\ \A k \in 1..(Len(all_results) - 1) :
              all_results[k].text_id <= all_results[k + 1].text_id
        /\ \A t \in 1..i :
              LET OfText(r) == r.text_id = t
                  recs == SelectSeq(all_results, OfText)
                  ents == ExtractEntities(en_core_web_sm[sample_texts[t]])
              IN  /\ Len(recs) = Len(ents)
                  /\ \A j \in DOMAIN recs :
                        /\ recs[j].entity_text = ents[j].text
                        /\ recs[j].entity_type = ents[j].label
                        /\ recs[j].description = ents[j].description

\* C2 witness: the pass is between two different texts and the first text
\* has given two records with different entities.
C2_Witness ==
    /\ pc = "analyze"
    /\ i = 1
    /\ Len(sample_texts) = 2
    /\ sample_texts[1] # sample_texts[2]
    /\ Len(all_results) >= 2
    /\ all_results[1].entity_text # all_results[2].entity_text
    /\ en_core_web_sm[sample_texts[2]] # <<>>

\* C3: when the analysis returns an empty record list, main calls neither
\* create_analysis_report nor save_results, writes no file, prints the
\* "no entities" message and ends normally.
C3_EmptyResultSkipped ==
    (AfterAnalysis \/ pc = "failed") /\ Called("analyze_texts")
            /\ all_results = <<>> =>
        /\ pc = "done"
        /\ ~Called("create_analysis_report")
        /\ ~Called("save_results")
        /\ files = NoFiles
        /\ Printed("no_entities_found")

\* C3 witness: two texts were analysed and neither gave an entity.
C3_Witness ==
    /\ pc = "done"
    /\ Len(sample_texts) = 2
    /\ i = 2
    /\ all_results = <<>>
    /\ Printed("no_entities_found")

\* save_results was called and one of the two files was not written.
SaveFailed ==
    Called("save_results") /\ (files.csv = None \/ files.report = None)

\* C4: when a write fails inside save_results, the warning is printed, no
\* error reaches main, the custom-text check and the closing message still
\* follow, and the record list is still the one that was analysed.
C4_SaveFailureNotFatal ==
    SaveFailed =>
        /\ Printed("warning_could_not_save")
        /\ pc \in {"custom", "done"}
        /\ pc = "custom" => ENABLED TestCustomText
        /\ pc = "done" =>
              Called("test_custom_text") /\ Printed("completed")
        /\ df = Some(all_results)
        /\ Len(all_results) = EntitiesReturned(Len(sample_texts))

\* C4 witness: the table was written, the text report was not, and the run
\* has finished.
C4_Witness ==
    /\ pc = "done"
    /\ SaveFailed
    /\ files.csv # None
    /\ files.report = None
    /\ Printed("completed")

\* C5: at most one download and at most two loads; when the model cannot be
\* loaded after the download the run has failed; none of analyze_texts,
\* create_analysis_report, save_results and test_custom_text is called
\* without a loaded model; a failed run is one without a loaded model.
C5_InitFailureOnly ==
    /\ downloads <= 1
    /\ loads <= 2
    /\ loads = 2 /\ ~model_on_disk => pc = "failed"
    /\ \A f \in ReportFunctions : Called(f) => nlp # None
    /\ pc \in {"get_texts", "analyze", "report", "save", "custom", "done"}
          => nlp # None
    /\ pc = "failed" =>
          /\ nlp = None
          /\ \A f \in ReportFunctions : ~Called(f)

\* C5 witness: the first load failed, the download did not help, the second
\* load failed and the run ended in failure.
C5_Witness ==
    /\ pc = "failed"
    /\ Called("load_spacy_model")
    /\ loads = 2
    /\ downloads = 1
    /\ nlp = None

\* C6, as claimed: in every finished run with a loaded model,
\* test_custom_text was called, whatever the analysis produced, and the
\* record list, the statistics and the files are those of the main batch.
C6_CustomTextAlwaysRuns ==
    pc = "done" /\ nlp # None =>
        /\ Called("test_custom_text")
        /\ Len(all_results) = EntitiesReturned(Len(sample_texts))

\* C7: create_analysis_report called with an empty record list performs no
\* division, returns (None, None) without statistics, and save_results is
\* not called on that outcome; no call ever divides by zero.
C7_EmptyReportNoDivision ==
    /\ summary.divisor # Some(0)
    /\ Called("create_analysis_report") /\ all_results = <<>> =>
          /\ summary.divisor = None
          /\ df = None
          /\ entity_counts = None
          /\ summary.stats = None
          /\ Printed("no_results")
          /\ ~Called("save_results")
          /\ files = NoFiles
          /\ pc = "custom"

\* C7 witness: create_analysis_report has returned for the empty list.
C7_Witness ==
    /\ Called("create_analysis_report")
    /\ all_results = <<>>
    /\ df = None
    /\ pc = "custom"

\* The breakdown b lists every type of the table once with its number of
\* rows, in descending order of that number; the counts sum to the number
\* of rows and the percentages count * 100 / total sum to 100.
CoversAll(b, rows) ==
    /\ {b[p].entity_type : p \in DOMAIN b}
          = {rows[k].entity_type : k \in DOMAIN rows}
    /\ \A p, q \in DOMAIN b : b[p].entity_type = b[q].entity_type => p = q
    /\ \A p \in DOMAIN b :
          /\ b[p].count = Occurrences(rows, "entity_type", b[p].entity_type)
          /\ b[p].percentage.den = Len(rows)
          /\ b[p].percentage.num = b[p].count * 100
    /\ SumOf(b, CountOf, Len(b)) = Len(rows)
    /\ SumOf(b, NumOf, Len(b)) = 100 * Len(rows)
    /\ Descending(b)

\* C8: for a non-empty record list, the per-type breakdown printed by
\* create_analysis_report, and the one save_results writes, cover every
\* record once: the counts sum to the number of records, the percentages sum
\* to 100, and the types are in descending order of count.
C8_BreakdownCoversAll ==
    /\ Called("create_analysis_report") /\ all_results # <<>> =>
          /\ summary.breakdown # None
          /\ CoversAll(Get(summary.breakdown), all_results)
    /\ files.report # None =>
          /\ CoversAll(Get(files.report).breakdown, all_results)
          /\ \A p \in DOMAIN Get(files.report).breakdown :
                LET w == Get(files.report).breakdown[p]
                    b == Get(summary.breakdown)[p]
                IN  /\ w.entity_type = b.entity_type
                    /\ w.count = b.count
                    /\ w.percentage = b.percentage

\* C8 witness: a written report with three types of different counts, the
\* most frequent of which is not the type of the first record.
C8_Witness ==
    /\ files.report # None
    /\ Len(Get(summary.breakdown)) = 3
    /\ Get(summary.breakdown)[1].count > Get(summary.breakdown)[2].count
    /\ Get(summary.breakdown)[2].count > Get(summary.breakdown)[3].count
    /\ Get(summary.breakdown)[1].entity_type # all_results[1].entity_type

\* C9: the top entities are grouped by entity_text; at most 10 are kept, in
\* descending order of count, and at most the first 5 of them are displayed;
\* every displayed entity occurs at least as often as every entity text not
\* displayed, so the first displayed one has the greatest count.
C9_TopEntities ==
    Called("create_analysis_report") /\ all_results # <<>> =>
        LET c == Get(summary.common_entities)
            d == Get(summary.displayed)
            names == {all_results[k].entity_text : k \in DOMAIN all_results}
            shown == {d[p].value : p \in DOMAIN d}
        IN  /\ Len(c) = Min(TopN, Cardinality(names))
            /\ Len(d) = Min(DisplayN, Len(c))
            /\ d = SubSeq(c, 1, Len(d))
            /\ Descending(c)
            /\ \A p, q \in DOMAIN c : c[p].value = c[q].value => p = q
            /\ \A p \in DOMAIN c :
                  /\ c[p].value \in names
                  /\ c[p].count
                        = Occurrences(all_results, "entity_text", c[p].value)
                  /\ \A e \in names \ {c[q].value : q \in DOMAIN c} :
                        c[p].count >= Occurrences(all_results, "entity_text", e)
            /\ \A p \in DOMAIN d : \A e \in names \ shown :
                  d[p].count >= Occurrences(all_results, "entity_text", e)
            /\ \A e \in names :
                  d[1].count >= Occurrences(all_results, "entity_text", e)

\* C9 witness: more than 10 different entity texts, 5 displayed, the first
\* displayed with count 3, ahead of one with count 1, and not the entity of
\* the first record.
C9_Witness ==
    /\ Called("create_analysis_report")
    /\ all_results # <<>>
    /\ Nunique(Column(all_results, "entity_text")) > TopN
    /\ Len(Get(summary.common_entities)) = TopN
    /\ Len(Get(summary.displayed)) = DisplayN
    /\ Get(summary.displayed)[1].count = 3
    /\ Get(summary.displayed)[DisplayN].count = 1
    /\ Get(summary.displayed)[1].value # all_results[1].entity_text

\* The input texts for which the extractor returned at least one entity.
TextsWithEntities ==
    {k \in 1..Len(sample_texts) : en_core_web_sm[sample_texts[k]] # <<>>}

\* C10: "total texts analyzed" is the number of input texts that gave at
\* least one entity: at least 1, at most the number of input texts, smaller
\* than it when some text gave no entity; the average entities per text is
\* the number of records over that number and at least 1; save_results
\* writes the same number.
C10_TotalTexts ==
    /\ Called("create_analysis_report") =>
          LET st == Get(summary.stats)
          IN  /\ st.total_texts = Cardinality(TextsWithEntities)
              /\ 1 <= st.total_texts
              /\ st.total_texts <= Len(sample_texts)
              /\ (\E k \in 1..Len(sample_texts) : k \notin TextsWithEntities)
                    => st.total_texts < Len(sample_texts)
              /\ st.avg_entities_per_text.num = Len(all_results)
              /\ st.avg_entities_per_text.den = st.total_texts
              /\ st.avg_entities_per_text.num >= st.avg_entities_per_text.den
    /\ files.report # None =>
          /\ Get(files.report).total_texts = Cardinality(TextsWithEntities)
          /\ Get(files.report).total_entities = Len(all_results)

\* C10 witness: two input texts, one of which gave no entity, the other
\* several; the report was written.
C10_Witness ==
    /\ pc = "done"
    /\ files.report # None
    /\ Len(sample_texts) = 2
    /\ Get(summary.stats).total_texts = 1
    /\ Get(summary.stats).total_entities >= 2

====
